---- MODULE Spec2Model ----
(***************************************************************************)
(* CommandBuffer<T> (src/src/lib.rs): a FIFO buffer over a VecDeque<T>     *)
(* that drops its least-recent command when a write finds it full.         *)
(*                                                                         *)
(* The buffer stores no capacity of its own: write_command compares        *)
(* events.len() with events.capacity().  The model therefore carries the   *)
(* deque's capacity as state (cap) next to the constructor argument        *)
(* (capacity).  T is a one-byte enum, as are Event (the tests) and Command *)
(* (the demo); VecDeque::with_capacity(n) then allocates exactly n slots   *)
(* and push_back on a full deque grows the allocation.                     *)
(***************************************************************************)
EXTENDS Integers, Sequences, FiniteSets, TLC

\* Largest constructor argument explored.
MaxCap == 4

\* Largest number of write_command calls in one run.
MaxWrites == 5

\* The payload type T: two variants of the test module's enum (items are
\* told apart by their id, so two payloads give every accept/reject pattern).
Event ==
  {"Up", "Down"}

\* Predicates F: FnMut(&T) -> bool, as the set of payloads they accept.
Predicates ==
  SUBSET Event

\* Option<T>: None is the empty sequence, Some(x) the one-element sequence.
None ==
  << >>

Some(x) ==
  << x >>

\* The outcome of a call that panics instead of returning.
Panic ==
  "panic"

Max(a, b) ==
  IF a >= b THEN a ELSE b

Min(a, b) ==
  IF a <= b THEN a ELSE b

VARIABLES
  capacity,   \* the argument CommandBuffer::new was called with
  events,     \* self.events, oldest first; each item is [v, id]
  cap,        \* self.events.capacity()
  written,    \* every item passed to write_command so far, in call order
  op,         \* the last call made: "new", "write", "read", "clear", "has", "retain"
  arg,        \* its argument: the item written, or the predicate
  ret,        \* its return value
  phase,      \* "writing": only writes since new/clear; "draining": then only reads; else "mixed"
  since,      \* what opened the current phase sequence and how many writes preceded it
  drained,    \* the results of the reads of the draining phase, up to the first None
  evicted,    \* ids of the commands that were oldest when a write reported a drop
  gone,       \* ids of the commands that left the buffer: dropped, read, retained or cleared
  nGone,      \* the number of departures recorded in gone
  handled,    \* demo: the handler calls of the last dispatch, in call order
  aborted     \* demo: "no" while the process runs, else the panic that ended it

vars ==
  << capacity, events, cap, written, op, arg, ret, phase, since, drained,
     evicted, gone, nGone, handled, aborted >>

\* The ids of the items of a sequence.
IdSet(s) ==
  {s[i].id : i \in 1..Len(s)}

\* The items of s that are no longer in t, in order.
Dropped(s, t) ==
  SelectSeq(s, LAMBDA e : e.id \notin IdSet(t))

----------------------------------------------------------------------------
(* VecDeque *)

\* VecDeque::pop_front: the front item, if any, and the deque without it.
PopFront(ev) ==
  IF ev = << >>
    THEN [val |-> None, rest |-> ev]
    ELSE [val |-> Some(Head(ev)), rest |-> Tail(ev)]

\* RawVec growth on a push into a full deque: amortised doubling, with a
\* floor of 8 slots for one-byte elements.
GrowCap(cp, len) ==
  Max(Max(2 * cp, len + 1), 8)

\* VecDeque::push_back: grows the allocation when the deque is full.
PushBack(ev, cp, x) ==
  [events |-> Append(ev, x),
   cap    |-> IF Len(ev) = cp THEN GrowCap(cp, Len(ev)) ELSE cp]

\* remove(i) done as swap_remove_back(i): the last item fills the freed slot.
Remove_swapback(ev, i) ==
  IF i < Len(ev)
    THEN [val  |-> Some(ev[i + 1]),
          rest |-> IF i + 1 = Len(ev)
                     THEN SubSeq(ev, 1, i)
                     ELSE SubSeq(ev, 1, i) \o << ev[Len(ev)] >>
                            \o SubSeq(ev, i + 2, Len(ev) - 1)]
    ELSE [val |-> None, rest |-> ev]

\* VecDeque::remove(i), i counted from 0: None when i is out of bounds.
Remove(ev, i) ==
  IF i < Len(ev)
    THEN [val  |-> Some(ev[i + 1]),
          rest |-> SubSeq(ev, 1, i) \o SubSeq(ev, i + 2, Len(ev))]
    ELSE [val |-> None, rest |-> ev]

----------------------------------------------------------------------------
(* CommandBuffer *)

\* CommandBuffer::new
New(c) ==
  [events |-> << >>, cap |-> c]

\* write_command with the test `len > capacity`: a full deque is not trimmed.
WriteCommand_gt(ev, cp, event) ==
  LET capped == Len(ev) > cp
      popped == IF capped THEN PopFront(ev).rest ELSE ev
      pushed == PushBack(popped, cp, event)
  IN  [events |-> pushed.events, cap |-> pushed.cap, ret |-> capped]

\* write_command dropping with pop_back: the most recent command goes.
WriteCommand_popback(ev, cp, event) ==
  LET capped == Len(ev) >= cp
      popped == IF capped /\ ev # << >> THEN SubSeq(ev, 1, Len(ev) - 1) ELSE ev
      pushed == PushBack(popped, cp, event)
  IN  [events |-> pushed.events, cap |-> pushed.cap, ret |-> capped]

\* write_command computing its flag after the pop: it never reports a drop.
WriteCommand_flag(ev, cp, event) ==
  LET popped == IF Len(ev) >= cp THEN PopFront(ev).rest ELSE ev
      capped == Len(popped) >= cp
      pushed == PushBack(popped, cp, event)
  IN  [events |-> pushed.events, cap |-> pushed.cap, ret |-> capped]

\* write_command storing with push_front: the new command becomes the oldest.
WriteCommand_pushfront(ev, cp, event) ==
  LET capped == Len(ev) >= cp
      popped == IF capped THEN PopFront(ev).rest ELSE ev
  IN  [events |-> << event >> \o popped,
       cap    |-> IF Len(popped) = cp THEN GrowCap(cp, Len(popped)) ELSE cp,
       ret    |-> capped]

\* write_command reporting a drop without the pop_front: the oldest command
\* stays and the deque grows.
WriteCommand_nopop(ev, cp, event) ==
  LET capped == Len(ev) >= cp
      pushed == PushBack(ev, cp, event)
  IN  [events |-> pushed.events, cap |-> pushed.cap, ret |-> capped]

\* CommandBuffer::write_command
WriteCommand(ev, cp, event) ==
  LET capped == Len(ev) >= cp
      popped == IF capped THEN PopFront(ev).rest ELSE ev
      pushed == PushBack(popped, cp, event)
  IN  [events |-> pushed.events, cap |-> pushed.cap, ret |-> capped]

\* read_command taking with pop_back: the newest command comes out first.
ReadCommand_popback(ev) ==
  IF ev = << >>
    THEN [events |-> ev, ret |-> None]
    ELSE [events |-> SubSeq(ev, 1, Len(ev) - 1), ret |-> Some(ev[Len(ev)])]

\* read_command taking with remove(0).unwrap(): an empty buffer panics.
ReadCommand_unwrap(ev) ==
  IF ev = << >>
    THEN [events |-> ev, ret |-> << [v |-> Panic, id |-> 0] >>]
    ELSE [events |-> Tail(ev), ret |-> Some(Head(ev))]

\* read_command returning front().cloned(): the command stays buffered.
ReadCommand_peek(ev) ==
  IF ev = << >>
    THEN [events |-> ev, ret |-> None]
    ELSE [events |-> ev, ret |-> Some(Head(ev))]

\* CommandBuffer::read_command
ReadCommand(ev) ==
  LET p == PopFront(ev)
  IN  [events |-> p.rest, ret |-> p.val]

\* clear replacing the deque by VecDeque::new(): the allocation is given up.
ClearEvents_realloc(ev, cp) ==
  [events |-> << >>, cap |-> 0]

\* CommandBuffer::clear: VecDeque::clear drops the items and keeps the
\* allocation.
ClearEvents(ev, cp) ==
  [events |-> << >>, cap |-> cp]

\* CommandBuffer::len
len ==
  Len(events)

\* is_empty asking the allocation, not the contents: capacity() == 0.
is_empty_cap ==
  cap = 0

\* CommandBuffer::is_empty
is_empty ==
  events = << >>

\* Iterator::any over events.iter(): oldest first, stopping at the first
\* item the predicate accepts.
RECURSIVE IterAny(_, _)
IterAny(ev, P) ==
  IF ev = << >>
    THEN FALSE
    ELSE IF Head(ev).v \in P THEN TRUE ELSE IterAny(Tail(ev), P)

\* has with Iterator::all in place of Iterator::any.
HasP_all(ev, P) ==
  \A i \in 1..Len(ev) : ev[i].v \in P

\* CommandBuffer::has
HasP(ev, P) ==
  IterAny(ev, P)

\* The retain loop with the cursor advanced after a removal as well: the item
\* that slid into the freed slot is never examined.
RECURSIVE RetainLoop_skip(_, _, _, _, _, _)
RetainLoop_skip(ev, popped, i, P, visited, iters) ==
  IF i < Len(ev)
    THEN IF ev[i + 1].v \in P
           THEN LET r == Remove(ev, i)
                IN  RetainLoop_skip(r.rest, Append(popped, r.val[1]), i + 1, P,
                                    Append(visited, ev[i + 1]), iters + 1)
           ELSE RetainLoop_skip(ev, popped, i + 1, P,
                                Append(visited, ev[i + 1]), iters + 1)
    ELSE [events |-> ev, ret |-> popped, visited |-> visited, iters |-> iters]

\* The retain loop with the cursor sent back to 0 after a removal: the kept
\* items in front are examined again.
RECURSIVE RetainLoop_restart(_, _, _, _, _, _)
RetainLoop_restart(ev, popped, i, P, visited, iters) ==
  IF i < Len(ev)
    THEN IF ev[i + 1].v \in P
           THEN LET r == Remove(ev, i)
                IN  RetainLoop_restart(r.rest, Append(popped, r.val[1]), 0, P,
                                       Append(visited, ev[i + 1]), iters + 1)
           ELSE RetainLoop_restart(ev, popped, i + 1, P,
                                   Append(visited, ev[i + 1]), iters + 1)
    ELSE [events |-> ev, ret |-> popped, visited |-> visited, iters |-> iters]

\* The retain loop copying a match into the result without remove(i): the
\* command is returned and stays buffered.
RECURSIVE RetainLoop_copy(_, _, _, _, _, _)
RetainLoop_copy(ev, popped, i, P, visited, iters) ==
  IF i < Len(ev)
    THEN IF ev[i + 1].v \in P
           THEN RetainLoop_copy(ev, Append(popped, ev[i + 1]), i + 1, P,
                                Append(visited, ev[i + 1]), iters + 1)
           ELSE RetainLoop_copy(ev, popped, i + 1, P,
                                Append(visited, ev[i + 1]), iters + 1)
    ELSE [events |-> ev, ret |-> popped, visited |-> visited, iters |-> iters]

\* The retain loop leaving after its first removal: later matches stay.
RECURSIVE RetainLoop_first(_, _, _, _, _, _)
RetainLoop_first(ev, popped, i, P, visited, iters) ==
  IF i < Len(ev)
    THEN IF ev[i + 1].v \in P
           THEN LET r == Remove(ev, i)
                IN  [events |-> r.rest, ret |-> Append(popped, r.val[1]),
                     visited |-> Append(visited, ev[i + 1]), iters |-> iters + 1]
           ELSE RetainLoop_first(ev, popped, i + 1, P,
                                 Append(visited, ev[i + 1]), iters + 1)
    ELSE [events |-> ev, ret |-> popped, visited |-> visited, iters |-> iters]

\* CommandBuffer::retain: the while loop, from cursor i (counted from 0).
\* visited records the items the predicate was evaluated on, iters the
\* number of loop iterations.
RECURSIVE RetainLoop(_, _, _, _, _, _)
RetainLoop(ev, popped, i, P, visited, iters) ==
  IF i < Len(ev)
    THEN IF ev[i + 1].v \in P
           THEN LET r == Remove(ev, i)
                IN  IF r.val # None
                      THEN RetainLoop(r.rest, Append(popped, r.val[1]), i, P,
                                      Append(visited, ev[i + 1]), iters + 1)
                      ELSE RetainLoop(ev, popped, i, P,
                                      Append(visited, ev[i + 1]), iters + 1)
           ELSE RetainLoop(ev, popped, i + 1, P,
                           Append(visited, ev[i + 1]), iters + 1)
    ELSE [events |-> ev, ret |-> popped, visited |-> visited, iters |-> iters]

\* CommandBuffer::retain
Retain(ev, P) ==
  RetainLoop(ev, << >>, 0, P, << >>, 0)

----------------------------------------------------------------------------
(* The calls a user of the buffer can make *)

Init ==
  /\ capacity \in 0..MaxCap
  /\ events = New(capacity).events
  /\ cap = New(capacity).cap
  /\ written = << >>
  /\ op = "new"
  /\ arg = None
  /\ ret = None
  /\ phase = "writing"
  /\ since = [kind |-> "new", at |-> 0]
  /\ drained = << >>
  /\ evicted = {}
  /\ gone = {}
  /\ nGone = 0
  /\ handled = << >>
  /\ aborted = "no"

Write(x) ==
  /\ Len(written) < MaxWrites
  /\ LET event == [v |-> x, id |-> Len(written) + 1]
         w == WriteCommand(events, cap, event)
     IN  /\ events' = w.events
         /\ cap' = w.cap
         /\ ret' = w.ret
         /\ arg' = event
         /\ written' = Append(written, event)
         /\ evicted' = IF w.ret /\ events # << >>
                          THEN evicted \cup {events[1].id}
                          ELSE evicted
         /\ gone' = gone \cup IdSet(Dropped(events, w.events))
         /\ nGone' = nGone + Len(Dropped(events, w.events))
  /\ op' = "write"
  /\ phase' = IF phase = "writing" THEN "writing" ELSE "mixed"
  /\ drained' = << >>
  /\ UNCHANGED << capacity, since, handled, aborted >>

Read ==
  /\ LET r == ReadCommand(events)
     IN  /\ events' = r.events
         /\ ret' = r.ret
         /\ phase' = IF phase \in {"writing", "draining"} THEN "draining" ELSE "mixed"
         /\ drained' = IF phase' = "draining"
                         THEN IF drained # << >> /\ drained[Len(drained)] = None
                                THEN drained
                                ELSE Append(drained, r.ret)
                         ELSE << >>
         /\ gone' = gone \cup IdSet(r.ret)
         /\ nGone' = nGone + Len(r.ret)
  /\ op' = "read"
  /\ arg' = None
  /\ UNCHANGED << capacity, cap, written, since, evicted, handled, aborted >>

Clear ==
  /\ LET r == ClearEvents(events, cap)
     IN  /\ events' = r.events
         /\ cap' = r.cap
         /\ gone' = gone \cup IdSet(Dropped(events, r.events))
         /\ nGone' = nGone + Len(Dropped(events, r.events))
  /\ op' = "clear"
  /\ arg' = None
  /\ ret' = None
  /\ phase' = "writing"
  /\ since' = [kind |-> "clear", at |-> Len(written)]
  /\ drained' = << >>
  /\ UNCHANGED << capacity, written, evicted, handled, aborted >>

Has(P) ==
  /\ ret' = HasP(events, P)
  /\ op' = "has"
  /\ arg' = P
  /\ UNCHANGED << capacity, events, cap, written, phase, since, drained,
                  evicted, gone, nGone, handled, aborted >>

RetainCall(P) ==
  /\ LET r == Retain(events, P)
     IN  /\ events' = r.events
         /\ ret' = r.ret
         /\ gone' = gone \cup IdSet(r.ret)
         /\ nGone' = nGone + Len(r.ret)
  /\ op' = "retain"
  /\ arg' = P
  /\ phase' = "mixed"
  /\ drained' = << >>
  /\ UNCHANGED << capacity, cap, written, since, evicted, handled, aborted >>

Next ==
  \/ \E x \in Event : Write(x)
  \/ Read
  \/ Clear
  \/ \E P \in Predicates : Has(P)
  \/ \E P \in Predicates : RetainCall(P)

Spec ==
  Init /\ [][Next]_vars

----------------------------------------------------------------------------
(* The demo (src/src/main.rs): lines from stdin drive one buffer of        *)
(* capacity 5                                                              *)

\* CommandBuffer::new(5) in main.
DemoCapacity == 5

\* Largest number of commands the demo writes in one run.
MaxDemoWrites == 7

\* enum Command
Command ==
  {"Stuff", "Things", "Exit"}

\* Characters char::is_whitespace accepts; a line is a sequence of these and
\* of words, a word being a run of other characters.
Whitespace ==
  {" ", "\t", "\r", "\n"}

\* The lines read_line can leave in input_buf; the empty one is end of input.
DemoLines ==
  { << "stuff", "\n" >>, << "things", "\n" >>, << "exit", "\n" >>,
    << "dispatch", "\n" >>, << " ", "things", "\r", "\n" >>,
    << "\t", "dispatch", " ", "\n" >>, << "exit" >>,
    << "quit", "\n" >>, << "stuff", " ", "things", "\n" >>,
    << "\n" >>, << >> }

\* str::trim_start
RECURSIVE TrimStart(_)
TrimStart(line) ==
  IF line # << >> /\ Head(line) \in Whitespace
    THEN TrimStart(Tail(line))
    ELSE line

\* str::trim_end
RECURSIVE TrimEnd(_)
TrimEnd(line) ==
  IF line # << >> /\ line[Len(line)] \in Whitespace
    THEN TrimEnd(SubSeq(line, 1, Len(line) - 1))
    ELSE line

\* str::trim
Trim(line) ==
  TrimEnd(TrimStart(line))

\* The match in main with "exit" taken as a reason to stop at once.
MatchToken_exitnow(tok) ==
  CASE tok = << "stuff" >>    -> [kind |-> "write", cmd |-> "Stuff"]
    [] tok = << "things" >>   -> [kind |-> "write", cmd |-> "Things"]
    [] tok = << "dispatch" >> -> [kind |-> "dispatch", cmd |-> "none"]
    [] OTHER                  -> [kind |-> "panic", cmd |-> "none"]

\* The match in main: what the trimmed line asks for.
MatchToken(tok) ==
  CASE tok = << "stuff" >>    -> [kind |-> "write", cmd |-> "Stuff"]
    [] tok = << "things" >>   -> [kind |-> "write", cmd |-> "Things"]
    [] tok = << "exit" >>     -> [kind |-> "write", cmd |-> "Exit"]
    [] tok = << "dispatch" >> -> [kind |-> "dispatch", cmd |-> "none"]
    [] OTHER                  -> [kind |-> "panic", cmd |-> "none"]

\* The match in State::dispatch: the handler a command goes to.
Handler(c) ==
  CASE c = "Stuff"  -> "World::do_stuff"
    [] c = "Things" -> "Renderer::do_things"

\* One pass of the dispatch loop body on a command that was read: unwrap
\* panics on None, Exit panics with "goodnight!".
DispatchOne(r, done) ==
  IF r.ret = None
    THEN [events |-> r.events, handled |-> done, outcome |-> "unwrap on None"]
    ELSE IF r.ret[1].v = "Exit"
           THEN [events |-> r.events, handled |-> done, outcome |-> "goodnight!"]
           ELSE [events |-> r.events,
                 handled |-> Append(done, [fn |-> Handler(r.ret[1].v), cmd |-> r.ret[1]]),
                 outcome |-> "no"]

\* State::dispatch written as loop { read; handle; if len == 0 break }: it
\* reads before it looks at len().
RECURSIVE DispatchLoop_dowhile(_, _)
DispatchLoop_dowhile(ev, done) ==
  LET d == DispatchOne(ReadCommand(ev), done)
  IN  IF d.outcome # "no"
        THEN d
        ELSE IF Len(d.events) > 0
               THEN DispatchLoop_dowhile(d.events, d.handled)
               ELSE d

\* State::dispatch: while buf.len() > 0 { match buf.read_command().unwrap() }
RECURSIVE DispatchLoop(_, _)
DispatchLoop(ev, done) ==
  IF Len(ev) > 0
    THEN LET d == DispatchOne(ReadCommand(ev), done)
         IN  IF d.outcome # "no"
               THEN d
               ELSE DispatchLoop(d.events, d.handled)
    ELSE [events |-> ev, handled |-> done, outcome |-> "no"]

InitDemo ==
  /\ capacity = DemoCapacity
  /\ events = New(capacity).events
  /\ cap = New(capacity).cap
  /\ written = << >>
  /\ op = "new"
  /\ arg = None
  /\ ret = None
  /\ phase = "writing"
  /\ since = [kind |-> "new", at |-> 0]
  /\ drained = << >>
  /\ evicted = {}
  /\ gone = {}
  /\ nGone = 0
  /\ handled = << >>
  /\ aborted = "no"

\* A loop iteration of main on "stuff", "things" or "exit".
DemoWrite(line) ==
  /\ aborted = "no"
  /\ MatchToken(Trim(line)).kind = "write"
  /\ Len(written) < MaxDemoWrites
  /\ LET event == [v |-> MatchToken(Trim(line)).cmd, id |-> Len(written) + 1]
         w == WriteCommand(events, cap, event)
     IN  /\ events' = w.events
         /\ cap' = w.cap
         /\ ret' = w.ret
         /\ written' = Append(written, event)
         /\ evicted' = IF w.ret /\ events # << >>
                          THEN evicted \cup {events[1].id}
                          ELSE evicted
         /\ gone' = gone \cup IdSet(Dropped(events, w.events))
         /\ nGone' = nGone + Len(Dropped(events, w.events))
  /\ op' = "write"
  /\ arg' = Trim(line)
  /\ UNCHANGED << capacity, phase, since, drained, handled, aborted >>

\* A loop iteration of main on "dispatch": the whole of State::dispatch.
DemoDispatch(line) ==
  /\ aborted = "no"
  /\ MatchToken(Trim(line)).kind = "dispatch"
  /\ LET d == DispatchLoop(events, << >>)
     IN  /\ events' = d.events
         /\ handled' = d.handled
         /\ aborted' = d.outcome
         /\ gone' = gone \cup IdSet(Dropped(events, d.events))
         /\ nGone' = nGone + Len(Dropped(events, d.events))
  /\ op' = "dispatch"
  /\ arg' = Trim(line)
  /\ ret' = None
  /\ since' = [kind |-> "dispatch", at |-> Len(written)]
  /\ UNCHANGED << capacity, cap, written, phase, drained, evicted >>

\* A loop iteration of main on any other line: panic!("unrecognized command").
DemoUnrecognized(line) ==
  /\ aborted = "no"
  /\ MatchToken(Trim(line)).kind = "panic"
  /\ aborted' = "unrecognized command"
  /\ op' = "panic"
  /\ arg' = Trim(line)
  /\ ret' = None
  /\ UNCHANGED << capacity, events, cap, written, phase, since, drained,
                  evicted, gone, nGone, handled >>

\* A loop iteration of main in which read_line fails (the input is not
\* UTF-8, or the read itself fails): the unwrap on its result panics.
DemoReadError ==
  /\ aborted = "no"
  /\ aborted' = "read_line Err"
  /\ op' = "panic"
  /\ arg' = None
  /\ ret' = None
  /\ UNCHANGED << capacity, events, cap, written, phase, since, drained,
                  evicted, gone, nGone, handled >>

NextDemo ==
  \/ \E line \in DemoLines : DemoWrite(line)
  \/ \E line \in DemoLines : DemoDispatch(line)
  \/ \E line \in DemoLines : DemoUnrecognized(line)
  \/ DemoReadError

SpecDemo ==
  InitDemo /\ [][NextDemo]_vars

----------------------------------------------------------------------------
(* Properties *)

\* Some(x) for each x of s, in order.
OptSeq(s) ==
  [i \in 1..Len(s) |-> Some(s[i])]

\* The ids of the items of s, in order.
Ids(s) ==
  [i \in 1..Len(s) |-> s[i].id]

\* The draining phase has read up to and including the first None.
DrainDone ==
  /\ phase = "draining"
  /\ drained # << >>
  /\ drained[Len(drained)] = None

\* A run that has only written to (and asked has of) a new buffer, and then
\* only read from it.
FreshDrain ==
  /\ since.kind = "new"
  /\ phase = "draining"

\* C1: a buffer built with capacity c > 0 never holds more than c commands,
\* whatever calls are made: 0 <= len() <= c.
C1_CapacityInvariant ==
  capacity > 0 => (0 <= len /\ len <= capacity)

\* C1 witness: more than c commands were written and the buffer holds c.
C1_Witness ==
  /\ capacity > 0
  /\ Len(written) > capacity
  /\ len = capacity

\* C2: writing c+k commands (k >= 1) to a new buffer of capacity c > 0 and
\* reading until None yields the last c of them, in the order written.
C2_EvictionOrder ==
  (capacity > 0 /\ FreshDrain /\ DrainDone /\ Len(written) > capacity)
    => drained = OptSeq(SubSeq(written, Len(written) - capacity + 1, Len(written)))
                   \o << None >>

\* C2 witness: a finished drain after c+2 or more writes.
C2_Witness ==
  /\ capacity > 1
  /\ FreshDrain
  /\ DrainDone
  /\ Len(written) >= capacity + 2

\* C3: with capacity c > 0, write_command returns true exactly when it
\* dropped a command, which is exactly when len() = c before the call; on a
\* new buffer that is only written to, the i-th write returns true iff i > c.
C3_WriteFlag ==
  [][(capacity > 0 /\ op' = "write") =>
       /\ ret' = (Len(events) = capacity)
       /\ ret' = (events # << >> /\ Head(events).id \notin {e.id : e \in {events'[i] : i \in 1..Len(events')}})
       /\ ret' = (Len(events') = Len(events))
       /\ (phase' = "writing" /\ since'.kind = "new")
            => ret' = (Len(written') > capacity)]_vars

\* C3 witness: a write dropped a command after reads, retain or clear had
\* been mixed in.
C3_Witness ==
  /\ capacity > 0
  /\ op = "write"
  /\ ret = TRUE
  /\ phase = "mixed"

\* C4: with capacity c > 0 and contents s, write_command(x) leaves s ++ [x]
\* when len(s) < c and tail(s) ++ [x] when len(s) = c: the new length is
\* min(len(s) + 1, c) and x is the newest command.
C4_WritePost ==
  [][(capacity > 0 /\ op' = "write") =>
       /\ Len(events) < capacity => events' = Append(events, arg')
       /\ Len(events) = capacity => events' = Append(Tail(events), arg')
       /\ Len(events') = Min(Len(events) + 1, capacity)
       /\ events'[Len(events')] = arg'
       /\ arg' = written'[Len(written')]]_vars

\* C4 witness: a write into a full buffer of capacity 2 or more stored its
\* command behind the survivors.
C4_Witness ==
  /\ capacity > 1
  /\ op = "write"
  /\ ret = TRUE
  /\ events[len] = arg
  /\ events[1].id = arg.id - capacity + 1

\* s is an initial segment of t.
IsPrefix(s, t) ==
  /\ Len(s) <= Len(t)
  /\ \A i \in 1..Len(s) : s[i] = t[i]

\* C5: after n <= c writes to a new buffer, n successive reads return the
\* commands in the order written and the next read returns None.
C5_FifoOrder ==
  (FreshDrain /\ Len(written) <= capacity)
    => /\ IsPrefix(drained, OptSeq(written) \o << None >>)
       /\ DrainDone => drained = OptSeq(written) \o << None >>
       /\ ~DrainDone => events = SubSeq(written, Len(drained) + 1, Len(written))

\* C5 witness: a finished drain of two or more commands, none ever dropped.
C5_Witness ==
  /\ FreshDrain
  /\ DrainDone
  /\ Len(written) >= 2
  /\ Len(written) <= capacity

\* C6: read_command on an empty buffer returns None and changes nothing;
\* len() is 0 before and after.
C6_EmptyRead ==
  [][(op' = "read" /\ events = << >>) =>
       /\ ret' = None
       /\ events' = << >>
       /\ Len(events) = 0 /\ Len(events') = 0
       /\ cap' = cap]_vars

\* C6 witness: the first read after a clear that followed some writes found
\* the buffer empty.
C6_Witness ==
  /\ op = "read"
  /\ ret = None
  /\ since.kind = "clear"
  /\ since.at > 0
  /\ drained = << None >>

\* C7: read_command on a buffer holding n > 0 commands returns the oldest
\* and leaves the other n-1 in their order.
C7_ReadPost ==
  [][(op' = "read" /\ events # << >>) =>
       /\ ret' = Some(events[1])
       /\ Len(events') = Len(events) - 1
       /\ events' = SubSeq(events, 2, Len(events))]_vars

\* C7 witness: a read returned a command and two or more remain.
C7_Witness ==
  /\ op = "read"
  /\ ret # None
  /\ len >= 2
  /\ ret[1].id < events[1].id

\* C8: retain(p) returns the commands that satisfy p and leaves those that
\* do not, both in arrival order; a read that follows returns the oldest
\* survivor.
C8_RetainPartition ==
  [][(op' = "retain" =>
        /\ ret' = SelectSeq(events, LAMBDA e : e.v \in arg')
        /\ events' = SelectSeq(events, LAMBDA e : e.v \notin arg'))
     /\
     ((op = "retain" /\ op' = "read") =>
        ret' = IF events = << >> THEN None ELSE Some(events[1]))]_vars

\* C8 witness: from four commands A, B, C, D retain returned B, C and left
\* A, D.
C8_Witness ==
  /\ capacity > 0
  /\ op = "retain"
  /\ Ids(ret) = << 2, 3 >>
  /\ Ids(events) = << 1, 4 >>

\* C9: has(p) is true iff some buffered command satisfies p, and it leaves
\* the buffer as it was.
C9_Has ==
  [][op' = "has" =>
       /\ ret' = (Cardinality({i \in 1..Len(events) : events[i].v \in arg'}) > 0)
       /\ events' = events
       /\ cap' = cap
       /\ Len(events') = Len(events)]_vars

\* C9 witness: has found a match in a buffer that also holds a command the
\* predicate rejects.
C9_Witness ==
  /\ op = "has"
  /\ ret = TRUE
  /\ len >= 2
  /\ \E i \in 1..len : events[i].v \notin arg
  /\ events[1].v \notin arg

\* C10: with capacity c > 0, clear empties the buffer, a read that follows
\* returns None, and of the writes that follow exactly the first c return
\* false and the next returns true.
C10_Clear ==
  [][capacity > 0 =>
       /\ op' = "clear" => (events' = << >> /\ Len(events') = 0 /\ cap' = cap)
       /\ (op = "clear" /\ op' = "read") => ret' = None
       /\ (op' = "write" /\ phase' = "writing" /\ since'.kind = "clear")
            => ret' = (Len(written') - since'.at > capacity)]_vars

\* C10 witness: the (c+1)-th write after a clear of a used buffer returned
\* true.
C10_Witness ==
  /\ capacity > 0
  /\ op = "write"
  /\ ret = TRUE
  /\ phase = "writing"
  /\ since.kind = "clear"
  /\ since.at > 0
  /\ Len(written) - since.at = capacity + 1

\* C11: whatever calls are made, the buffered commands are a subsequence of
\* the commands written, in arrival order: each is a written command and a
\* command written earlier is never behind one written later.
C11_ArrivalOrder ==
  /\ \A i \in 1..Len(events) :
       /\ events[i].id \in 1..Len(written)
       /\ events[i] = written[events[i].id]
  /\ \A i, j \in 1..Len(events) : i < j => events[i].id < events[j].id

\* C11 witness: after a retain the buffer holds two commands that were not
\* written one after the other, and a command written after both.
C11_Witness ==
  /\ Len(events) >= 3
  /\ events[2].id > events[1].id + 1
  /\ \E i \in 1..Len(written) : written[i].id \notin {e.id : e \in {events[k] : k \in 1..Len(events)}}

\* C12: a command dropped by a write is gone for good: it is not in the
\* buffer, no read_command returns it, no retain result holds it, and has
\* never reports true on its account.
C12_EvictedGone ==
  /\ evicted \cap IdSet(events) = {}
  /\ op = "read" => evicted \cap IdSet(ret) = {}
  /\ op = "retain" => evicted \cap IdSet(ret) = {}
  /\ (op = "has" /\ ret = TRUE) =>
       \E i \in 1..Len(events) : events[i].id \notin evicted /\ events[i].v \in arg

\* C12 witness: after a write dropped a command, a read returned one.
C12_Witness ==
  /\ capacity > 0
  /\ evicted # {}
  /\ op = "read"
  /\ ret # None

\* C13: capacity 0 has one policy. new(0) is not rejected, so the buffer is
\* the always-dropping one: every write returns true and len() stays at 0,
\* for the first write as for every later one.
C13_ZeroCapacity ==
  capacity = 0 =>
    /\ len <= capacity
    /\ op = "write" => ret = TRUE

\* C14: is_empty() is true exactly when len() is 0.
C14_IsEmpty ==
  is_empty <=> (len = 0)

\* C14 witness: a read took the last command of a buffer that had been
\* written to, and is_empty() is true.
C14_Witness ==
  /\ is_empty
  /\ Len(written) > 0
  /\ op = "read"
  /\ ret # None

\* C15: on a buffer holding n commands the retain loop evaluates the
\* predicate once on each of them, in arrival order, and ends after n
\* iterations; every command it takes out is in the result, so the result and
\* the survivors together are the n commands.
C15_RetainScan ==
  [][op' = "retain" =>
       LET r == Retain(events, arg')
       IN  /\ r.visited = events
           /\ r.iters = Len(events)
           /\ r.events = events' /\ r.ret = ret'
           /\ Len(ret') + Len(events') = Len(events)
           /\ IdSet(ret') \cup IdSet(events') = IdSet(events)]_vars

\* C15 witness: a retain over three or more commands took out two that stood
\* next to each other and kept one behind them.
C15_Witness ==
  /\ op = "retain"
  /\ Len(ret) >= 2
  /\ ret[2].id = ret[1].id + 1
  /\ events # << >>
  /\ events[Len(events)].id > ret[2].id

\* C18: every command written is accounted for exactly once: it is in the
\* buffer, or it left once (dropped by a write, returned by a read or by a
\* retain, or cleared). No command is duplicated or returned twice, and the
\* buffer and the results hold only commands that were written.
C18_Conservation ==
  /\ IdSet(events) \cap gone = {}
  /\ IdSet(events) \cup gone = 1..Len(written)
  /\ Cardinality(IdSet(events)) = Len(events)
  /\ Cardinality(gone) = nGone
  /\ Len(events) + nGone = Len(written)
  /\ \A i \in 1..Len(events) : events[i] = written[events[i].id]
  /\ op \in {"read", "retain"} =>
       \A i \in 1..Len(ret) : /\ ret[i].id \in 1..Len(written)
                               /\ ret[i] = written[ret[i].id]
                               /\ ret[i].id \in gone

\* C18 witness: a write has dropped a command, a retain has returned some,
\* and others are still buffered.
C18_Witness ==
  /\ capacity > 0
  /\ evicted # {}
  /\ op = "retain"
  /\ ret # << >>
  /\ Len(events) >= 2
  /\ nGone >= 3

\* C19: has(p) is true iff retain(p) in the same state returns a non-empty
\* vector; right after retain(p), has(p) is false and a second retain(p)
\* returns an empty vector and leaves the buffer as it is.
C19_HasRetain ==
  [][/\ op' = "retain" =>
          /\ (ret' # << >>) = HasP(events, arg')
          /\ HasP(events', arg') = FALSE
          /\ Retain(events', arg').ret = << >>
          /\ Retain(events', arg').events = events'
     /\ (op = "has" /\ op' = "retain" /\ arg' = arg) => ret = (ret' # << >>)
     /\ (op = "retain" /\ op' = "has" /\ arg' = arg) => ret' = FALSE
     /\ (op = "retain" /\ op' = "retain" /\ arg' = arg) =>
          (ret' = << >> /\ events' = events)]_vars

\* C19 witness: a retain returned two commands that did not stand next to
\* each other and kept an older one.
C19_Witness ==
  /\ op = "retain"
  /\ Len(ret) >= 2
  /\ ret[2].id > ret[1].id + 1
  /\ events # << >>
  /\ events[1].id < ret[1].id

\* No Exit command is buffered.
NoExit(ev) ==
  \A i \in 1..Len(ev) : ev[i].v # "Exit"

\* The position of the oldest buffered Exit command.
FirstExit(ev) ==
  CHOOSE k \in 1..Len(ev) :
    ev[k].v = "Exit" /\ \A j \in 1..(k - 1) : ev[j].v # "Exit"

\* The handler calls that s asks for, one per command, in order.
Calls(s) ==
  [i \in 1..Len(s) |->
     [fn  |-> IF s[i].v = "Stuff" THEN "World::do_stuff" ELSE "Renderer::do_things",
      cmd |-> s[i]]]

\* The lines the demo recognises, trimmed.
Recognised ==
  {<< "stuff" >>, << "things" >>, << "exit" >>, << "dispatch" >>}

\* C16: on "dispatch" with no Exit buffered, one handler runs per buffered
\* command, in the order written; these are the last (at most 5) commands
\* written since the previous dispatch; the buffer is empty afterwards; and
\* unwrap never meets None.
C16_DispatchFifo ==
  [][op' = "dispatch" =>
       /\ aborted' # "unwrap on None"
       /\ NoExit(events) =>
            /\ handled' = Calls(events)
            /\ events' = << >>
            /\ aborted' = "no"
            /\ Len(handled') <= DemoCapacity
            /\ LET n == Len(written) - since.at
               IN  handled' = Calls(SubSeq(written,
                                           Len(written) - Min(n, DemoCapacity) + 1,
                                           Len(written)))]_vars

\* C16 witness: a dispatch ran five handlers after a sixth, older command
\* had been dropped.
C16_Witness ==
  /\ op = "dispatch"
  /\ aborted = "no"
  /\ Len(handled) = DemoCapacity
  /\ (handled[1].cmd.id - 1) \in evicted

\* What C17 says of the line "exit", of a dispatch that meets an Exit, and
\* of the time after the stop.
C17_ExitSteps ==
  /\ (arg' \in {<< "stuff" >>, << "things" >>, << "exit" >>}) => aborted' = "no"
  /\ (arg' = << "exit" >> /\ aborted = "no") =>
       /\ written' = Append(written, [v |-> "Exit", id |-> Len(written) + 1])
       /\ handled' = handled
  /\ (arg' = << "dispatch" >> /\ ~NoExit(events)) =>
       /\ aborted' = "goodnight!"
       /\ handled' = Calls(SubSeq(events, 1, FirstExit(events) - 1))
       /\ events' = SubSeq(events, FirstExit(events) + 1, Len(events))
  /\ aborted # "no" => UNCHANGED vars

\* The step is a stop on a line the demo does not recognise.
StopUnrecognised ==
  /\ op' = "panic"
  /\ arg' \notin Recognised
  /\ aborted' = "unrecognized command"

\* The step is a stop of dispatch at a buffered Exit.
StopExit ==
  /\ op' = "dispatch"
  /\ ~NoExit(events)
  /\ aborted' = "goodnight!"

\* The step is a stop on a failed read_line.
StopReadError ==
  /\ op' = "panic"
  /\ aborted' = "read_line Err"

====
